---------------------------- MODULE Spec2Model ----------------------------
(***************************************************************************)
(* Model of the transaction codec of src/src/lib.rs: CompactSize,          *)
(* OutPoint, Script, TransactionInput and BitcoinTransaction, each with    *)
(* to_bytes and from_bytes.                                                *)
(*                                                                         *)
(* Machine integers.  TLC's integers are 32 bits wide, so a u16/u32/u64/   *)
(* usize is a little-endian sequence of 16-bit limbs (1, 2, 4 limbs; usize *)
(* has 2 or 4 limbs with the target).  Casts, little-endian conversion and *)
(* usize addition are computed on the limbs at their real width.           *)
(*                                                                         *)
(* A call returns Ok(value, consumed), Err(error) or Panic(message).       *)
(***************************************************************************)
EXTENDS Integers, Sequences, FiniteSets

VARIABLES
    build,      \* the compilation: overflow checks on/off, target
    kind,       \* the structure whose to_bytes / from_bytes is exercised
    value,      \* the constructed value, or NoValue for input from the wire
    bytes,      \* the byte sequence produced by to_bytes / handed to from_bytes
    origin,     \* how bytes came about: none, encoded, truncated, extended, wire
    result,     \* what from_bytes returned, or NoResult
    reserved    \* capacity asked of Vec::with_capacity by the call, or NoReserve

vars == <<build, kind, value, bytes, origin, result, reserved>>

-----------------------------------------------------------------------------
(* Machine words *)

LimbBase == 256 * 256

Byte == 0..255

\* n zero limbs / n zero bytes ([0u8; n])
Zeros(n) == [i \in 1..n |-> 0]

\* a small natural (< 2^31) as a word of n limbs
Word(n, k) == [i \in 1..n |-> IF i = 1 THEN k % LimbBase
                               ELSE IF i = 2 THEN k \div LimbBase ELSE 0]

u64(k) == Word(4, k)

\* `x as uN`: keep the low limbs, zero-extend to n limbs
Cast(w, n) == [i \in 1..n |-> IF i <= Len(w) THEN w[i] ELSE 0]

\* `x as u8`
as_u8(w) == w[1] % 256

\* comparison of two words of the same width
WLt(a, b) == \E i \in 1..Len(a) :
                /\ a[i] < b[i]
                /\ \A j \in (i+1)..Len(a) : a[j] = b[j]

WLe(a, b) == a = b \/ WLt(a, b)

\* the word is a small natural (it fits the first limb) / that natural
Fits(w) == \A i \in 2..Len(w) : w[i] = 0

ToNat(w) == w[1]

from_be_bytes(bs) ==
    [j \in 1..(Len(bs) \div 2) |->
        bs[Len(bs) - 2*j + 1] + 256 * bs[Len(bs) - 2*j + 2] ]

\* uN::to_le_bytes: least significant byte first
to_le_bytes(w) ==
    [i \in 1..(2 * Len(w)) |->
        IF i % 2 = 1 THEN w[(i + 1) \div 2] % 256
                     ELSE w[i \div 2] \div 256 ]

\* uN::from_le_bytes on an array of 2, 4 or 8 bytes
from_le_bytes(bs) ==
    [j \in 1..(Len(bs) \div 2) |-> bs[2*j - 1] + 256 * bs[2*j] ]

\* target_pointer_width
pointer_width == IF build.target = "x86_64" THEN 64 ELSE 32

\* usize of the target
UsizeLimbs == pointer_width \div 16

usize(k) == Word(UsizeLimbs, k)

\* `x as usize` of a u64
as_usize(w) == Cast(w, UsizeLimbs)

RECURSIVE Carry(_, _, _)
Carry(a, b, i) ==
    IF i = 0 THEN 0 ELSE (a[i] + b[i] + Carry(a, b, i - 1)) \div LimbBase

\* a + b on usize: the wrapped sum and whether it overflowed
usize_add(a, b) ==
    [ value    |-> [i \in 1..Len(a) |-> (a[i] + b[i] + Carry(a, b, i - 1)) % LimbBase],
      overflow |-> Carry(a, b, Len(a)) = 1 ]

\* bytes.len() < w, for a usize w
LenLt(n, w) == ~Fits(w) \/ n < ToNat(w)

\* &bytes[lo..hi] and &bytes[lo..] (0-based, hi exclusive)
Slice(bs, lo, hi) == SubSeq(bs, lo + 1, hi)

SliceFrom(bs, lo) == SubSeq(bs, lo + 1, Len(bs))

-----------------------------------------------------------------------------
(* Results *)

InsufficientBytes == "InsufficientBytes"

InvalidFormat == "InvalidFormat"

Ok(v, n) == [tag |-> "Ok", value |-> v, consumed |-> n]

Err(e) == [tag |-> "Err", err |-> e]

Panic(m) == [tag |-> "Panic", msg |-> m]

NoResult == [tag |-> "None"]

NoValue == [absent |-> TRUE]

NoReserve == <<>>

-----------------------------------------------------------------------------
(* CompactSize *)

CompactSize_new(v) == [value |-> v]

CompactSize_to_bytes_offbyone(self) ==
    IF WLe(self.value, u64(253)) THEN <<as_u8(self.value)>>
    ELSE IF WLe(self.value, u64(65535))
        THEN <<253>> \o to_le_bytes(Cast(self.value, 1))
    ELSE IF WLe(self.value, <<65535, 65535, 0, 0>>)
        THEN <<254>> \o to_le_bytes(Cast(self.value, 2))
    ELSE <<255>> \o to_le_bytes(self.value)

CompactSize_to_bytes(self) ==
    IF WLe(self.value, u64(252)) THEN <<as_u8(self.value)>>
    ELSE IF WLe(self.value, u64(65535))
        THEN <<253>> \o to_le_bytes(Cast(self.value, 1))
    ELSE IF WLe(self.value, <<65535, 65535, 0, 0>>)
        THEN <<254>> \o to_le_bytes(Cast(self.value, 2))
    ELSE <<255>> \o to_le_bytes(self.value)

CompactSize_from_bytes_copypaste(bs) ==
    IF bs = <<>> THEN Err(InsufficientBytes)
    ELSE IF bs[1] <= 252 THEN Ok(CompactSize_new(Cast(<<bs[1]>>, 4)), 1)
    ELSE IF bs[1] = 253 THEN
        IF Len(bs) < 3 THEN Err(InsufficientBytes)
        ELSE Ok(CompactSize_new(Cast(from_le_bytes(Slice(bs, 1, 3)), 4)), 3)
    ELSE IF bs[1] = 254 THEN
        IF Len(bs) < 5 THEN Err(InsufficientBytes)
        ELSE Ok(CompactSize_new(Cast(from_le_bytes(Slice(bs, 1, 3)), 4)), 5)
    ELSE
        IF Len(bs) < 9 THEN Err(InsufficientBytes)
        ELSE Ok(CompactSize_new(from_le_bytes(Slice(bs, 1, 9))), 9)

CompactSize_from_bytes(bs) ==
    IF bs = <<>> THEN Err(InsufficientBytes)
    ELSE IF bs[1] <= 252 THEN Ok(CompactSize_new(Cast(<<bs[1]>>, 4)), 1)
    ELSE IF bs[1] = 253 THEN
        IF Len(bs) < 3 THEN Err(InsufficientBytes)
        ELSE Ok(CompactSize_new(Cast(from_le_bytes(Slice(bs, 1, 3)), 4)), 3)
    ELSE IF bs[1] = 254 THEN
        IF Len(bs) < 5 THEN Err(InsufficientBytes)
        ELSE Ok(CompactSize_new(Cast(from_le_bytes(Slice(bs, 1, 5)), 4)), 5)
    ELSE
        IF Len(bs) < 9 THEN Err(InsufficientBytes)
        ELSE Ok(CompactSize_new(from_le_bytes(Slice(bs, 1, 9))), 9)

-----------------------------------------------------------------------------
(* OutPoint *)

TXID_LEN == 32

OutPoint_new(txid, vout) == [txid |-> txid, vout |-> vout]

OutPoint_to_bytes(self) == self.txid \o to_le_bytes(self.vout)

OutPoint_from_bytes_short(bs) ==
    IF Len(bs) < TXID_LEN THEN Err(InsufficientBytes)
    ELSE IF Len(bs) < TXID_LEN + 4 THEN Panic("index out of bounds")
    ELSE Ok(OutPoint_new(Slice(bs, 0, TXID_LEN),
                         from_le_bytes(Slice(bs, TXID_LEN, TXID_LEN + 4))),
            TXID_LEN + 4)

OutPoint_from_bytes(bs) ==
    IF Len(bs) < TXID_LEN + 4 THEN Err(InsufficientBytes)
    ELSE Ok(OutPoint_new(Slice(bs, 0, TXID_LEN),
                         from_le_bytes(Slice(bs, TXID_LEN, TXID_LEN + 4))),
            TXID_LEN + 4)

-----------------------------------------------------------------------------
(* Script *)

Script_new(bs) == [bytes |-> bs]

Script_to_bytes(self) ==
    CompactSize_to_bytes(CompactSize_new(u64(Len(self.bytes)))) \o self.bytes

\* the tail of from_bytes once the prefix is decoded: the length check, the
\* slice and the copy.  consumed + length is a usize addition: it panics on
\* overflow when overflow checks are compiled in and wraps otherwise; a slice
\* whose start is past its end, or whose end is past the input, panics.
Script_payload(bs, consumed, length) ==
    LET sum == usize_add(usize(consumed), length) IN
    IF sum.overflow /\ build.overflow_checks
        THEN Panic("attempt to add with overflow")
    ELSE IF LenLt(Len(bs), sum.value) THEN Err(InsufficientBytes)
    ELSE IF consumed > ToNat(sum.value)
        THEN Panic("slice index starts past its end")
    ELSE Ok(Script_new(Slice(bs, consumed, ToNat(sum.value))), ToNat(sum.value))

Script_from_bytes_rest(bs) ==
    LET p == CompactSize_from_bytes(bs) IN
    IF p.tag # "Ok" THEN p
    ELSE LET r == Script_payload(bs, p.consumed, as_usize(p.value.value)) IN
         IF r.tag # "Ok" THEN r
         ELSE Ok(Script_new(SliceFrom(bs, p.consumed)), r.consumed)

Script_from_bytes(bs) ==
    LET p == CompactSize_from_bytes(bs) IN
    IF p.tag # "Ok" THEN p
    ELSE Script_payload(bs, p.consumed, as_usize(p.value.value))

-----------------------------------------------------------------------------
(* TransactionInput *)

TransactionInput_new(previous_output, script_sig, sequence) ==
    [previous_output |-> previous_output, script_sig |-> script_sig,
     sequence |-> sequence]

TransactionInput_to_bytes(self) ==
    OutPoint_to_bytes(self.previous_output)
        \o Script_to_bytes(self.script_sig)
        \o to_le_bytes(self.sequence)

TransactionInput_from_bytes(bs) ==
    LET o == OutPoint_from_bytes(bs) IN
    IF o.tag # "Ok" THEN o
    ELSE LET use1 == o.consumed
             s == Script_from_bytes(SliceFrom(bs, use1)) IN
         IF s.tag # "Ok" THEN s
         ELSE LET use2 == s.consumed IN
              IF Len(bs) < use1 + use2 + 4 THEN Err(InsufficientBytes)
              ELSE Ok(TransactionInput_new(
                          o.value, s.value,
                          from_le_bytes(Slice(bs, use1 + use2, use1 + use2 + 4))),
                      use1 + use2 + 4)

-----------------------------------------------------------------------------
(* BitcoinTransaction *)

BitcoinTransaction_new(version, inputs, lock_time) ==
    [version |-> version, inputs |-> inputs, lock_time |-> lock_time]

\* the `for input in &self.inputs` loop: each input's bytes, in list order
RECURSIVE extend_inputs(_)
extend_inputs(inputs) ==
    IF inputs = <<>> THEN <<>>
    ELSE TransactionInput_to_bytes(Head(inputs)) \o extend_inputs(Tail(inputs))

BitcoinTransaction_to_bytes_locktime_first(self) ==
    to_le_bytes(self.version)
        \o CompactSize_to_bytes(CompactSize_new(u64(Len(self.inputs))))
        \o to_le_bytes(self.lock_time)
        \o extend_inputs(self.inputs)

BitcoinTransaction_to_bytes(self) ==
    to_le_bytes(self.version)
        \o CompactSize_to_bytes(CompactSize_new(u64(Len(self.inputs))))
        \o extend_inputs(self.inputs)
        \o to_le_bytes(self.lock_time)

\* Layout of TransactionInput: OutPoint (32 + 4), Script (one Vec: three
\* pointer-sized words), sequence (4).
size_of_TransactionInput == TXID_LEN + 4 + 3 * (pointer_width \div 8) + 4

RECURSIVE MulCarry(_, _, _)
MulCarry(a, k, i) ==
    IF i = 0 THEN 0 ELSE (a[i] * k + MulCarry(a, k, i - 1)) \div LimbBase

\* a * k on usize, k small: the wrapped product and whether it overflowed
usize_mul(a, k) ==
    [ value    |-> [i \in 1..Len(a) |-> (a[i] * k + MulCarry(a, k, i - 1)) % LimbBase],
      overflow |-> MulCarry(a, k, Len(a)) > 0 ]

isize_MAX == [i \in 1..UsizeLimbs |-> IF i = UsizeLimbs THEN 32767 ELSE 65535]

\* Vec::with_capacity(cap) panics with "capacity overflow" when cap elements
\* take more than isize::MAX bytes.  A request below that is taken to be
\* granted: what the allocator does with it is not decided by this code.
capacity_overflow(cap) ==
    LET size == usize_mul(cap, size_of_TransactionInput) IN
    size.overflow \/ WLt(isize_MAX, size.value)

\* the argument of Vec::with_capacity, when the call gets that far
with_capacity_arg(bs) ==
    IF Len(bs) < 4 THEN NoReserve
    ELSE LET c == CompactSize_from_bytes(SliceFrom(bs, 4)) IN
         IF c.tag # "Ok" THEN NoReserve ELSE as_usize(c.value.value)

\* `for _ in 0..input_count.value`: i inputs are read, offset is the running
\* offset.  Every pass that succeeds consumes at least 41 bytes, so the loop
\* ends by the count or by an error however large the count.
RECURSIVE read_inputs(_, _, _, _, _)
read_inputs(bs, count, i, offset, inputs) ==
    IF u64(i) = count THEN [tag |-> "Ok", inputs |-> inputs, offset |-> offset]
    ELSE LET r == TransactionInput_from_bytes(SliceFrom(bs, offset)) IN
         IF r.tag # "Ok" THEN r
         ELSE read_inputs(bs, count, i + 1, offset + r.consumed,
                          Append(inputs, r.value))

BitcoinTransaction_from_bytes(bs) ==
    IF Len(bs) < 4 THEN Err(InsufficientBytes)
    ELSE LET version == from_le_bytes(Slice(bs, 0, 4))
             c == CompactSize_from_bytes(SliceFrom(bs, 4)) IN
         IF c.tag # "Ok" THEN c
         ELSE IF capacity_overflow(as_usize(c.value.value))
             THEN Panic("capacity overflow")
         ELSE LET l == read_inputs(bs, c.value.value, 0, 4 + c.consumed, <<>>) IN
              IF l.tag # "Ok" THEN l
              ELSE IF Len(bs) < l.offset + 4 THEN Err(InsufficientBytes)
              ELSE Ok(BitcoinTransaction_new(
                          version, l.inputs,
                          from_le_bytes(Slice(bs, l.offset, l.offset + 4))),
                      l.offset + 4)

\* to_bytes / from_bytes of the structure named k
to_bytes(k, v) ==
    CASE k = "CompactSize" -> CompactSize_to_bytes(v)
      [] k = "OutPoint" -> OutPoint_to_bytes(v)
      [] k = "Script" -> Script_to_bytes(v)
      [] k = "TransactionInput" -> TransactionInput_to_bytes(v)
      [] k = "BitcoinTransaction" -> BitcoinTransaction_to_bytes(v)

from_bytes(k, bs) ==
    CASE k = "CompactSize" -> CompactSize_from_bytes(bs)
      [] k = "OutPoint" -> OutPoint_from_bytes(bs)
      [] k = "Script" -> Script_from_bytes(bs)
      [] k = "TransactionInput" -> TransactionInput_from_bytes(bs)
      [] k = "BitcoinTransaction" -> BitcoinTransaction_from_bytes(bs)

-----------------------------------------------------------------------------
(* Inputs: the values handed to to_bytes and the byte sequences handed to    *)
(* from_bytes.                                                               *)

MaxInputs == 2

MaxScriptLen == 2

MaxTrailing == 2

MaxRawLen == 3

Kinds == {"CompactSize", "OutPoint", "Script", "TransactionInput",
          "BitcoinTransaction"}

\* a 64-bit and a 32-bit target, each with and without overflow checks
Builds == [overflow_checks : BOOLEAN, target : {"x86_64", "wasm32"}]

\* all sequences over S of length at most n
SeqsUpTo(S, n) == UNION {[1..k -> S] : k \in 0..n}

\* the prefixes (itself included) of every sequence of S
PrefixesOf(S) == UNION {{SubSeq(b, 1, n) : n \in 0..Len(b)} : b \in S}

\* u64 values on and around every encoding boundary, around the largest
\* capacity a Vec grants, at the top of the range, and one with 8 distinct bytes
U64Samples ==
    { <<0, 0, 0, 0>>, <<1, 0, 0, 0>>, <<2, 0, 0, 0>>, <<5, 0, 0, 0>>,
      <<252, 0, 0, 0>>, <<253, 0, 0, 0>>, <<254, 0, 0, 0>>, <<255, 0, 0, 0>>,
      <<256, 0, 0, 0>>, <<65535, 0, 0, 0>>,
      <<0, 1, 0, 0>>, <<65535, 65535, 0, 0>>,
      <<0, 0, 1, 0>>, <<513, 1027, 1541, 2055>>,
      <<65535, 65535, 65535, 511>>, <<0, 0, 0, 512>>,
      <<65527, 65535, 65535, 65535>>, <<65535, 65535, 65535, 65535>> }

U32Samples == { <<0, 0>>, <<1, 0>>, <<513, 1027>>, <<65535, 65535>> }

TxidSamples == { Zeros(TXID_LEN), [i \in 1..TXID_LEN |-> i] }

ScriptAlphabet == {0, 171}

LongScriptLens == {252, 253}

ShortScripts == {Script_new(p) : p \in SeqsUpTo(ScriptAlphabet, MaxScriptLen)}

ScriptSamples ==
    ShortScripts \cup {Script_new([i \in 1..n |-> 117]) : n \in LongScriptLens}

OutPointSamples == {OutPoint_new(t, v) : t \in TxidSamples, v \in U32Samples}

InputSamples ==
    { TransactionInput_new(o, s, q) :
        o \in { OutPoint_new(Zeros(TXID_LEN), <<0, 0>>),
                OutPoint_new([i \in 1..TXID_LEN |-> i], <<513, 1027>>) },
        s \in ShortScripts,
        q \in { <<65535, 65535>>, <<513, 1027>> } }
    \cup { TransactionInput_new(OutPoint_new([i \in 1..TXID_LEN |-> i], <<1, 0>>),
                                s, <<65533, 65535>>) : s \in ScriptSamples \ ShortScripts }

\* the inputs transactions are built from: two with an empty script
TxInputSamples ==
    { TransactionInput_new(OutPoint_new(Zeros(TXID_LEN), <<0, 0>>),
                           Script_new(<<>>), <<65535, 65535>>),
      TransactionInput_new(OutPoint_new([i \in 1..TXID_LEN |-> i], <<513, 1027>>),
                           Script_new(<<171>>), <<0, 0>>),
      TransactionInput_new(OutPoint_new(Zeros(TXID_LEN), <<1, 0>>),
                           Script_new(<<>>), <<65534, 65535>>) }

TransactionSamples ==
    { BitcoinTransaction_new(h[1], ins, h[2]) :
        h \in { <<(<<1, 0>>), (<<0, 0>>)>>, <<(<<513, 1027>>), (<<65535, 65535>>)>> },
        ins \in SeqsUpTo(TxInputSamples, MaxInputs) }

Samples(k) ==
    CASE k = "CompactSize" -> {CompactSize_new(v) : v \in U64Samples}
      [] k = "OutPoint" -> OutPointSamples
      [] k = "Script" -> ScriptSamples
      [] k = "TransactionInput" -> InputSamples
      [] k = "BitcoinTransaction" -> TransactionSamples

\* bytes appended after an encoding
Trailing == SeqsUpTo({0, 255}, MaxTrailing) \ {<<>>}

\* a length or count v on the wire in width 1, 3, 5 or 9, canonical or not
WidePrefix(v, width) ==
    IF width = 1 THEN <<as_u8(v)>>
    ELSE <<252 + (IF width = 3 THEN 1 ELSE IF width = 5 THEN 2 ELSE 3)>>
            \o to_le_bytes(Cast(v, (width - 1) \div 2))

FitsWidth(v, width) ==
    IF width = 1 THEN WLe(v, u64(252))
    ELSE Cast(Cast(v, (width - 1) \div 2), 4) = v

WirePrefixes ==
    UNION { {WidePrefix(v, width) : width \in {w \in {1, 3, 5, 9} : FitsWidth(v, w)}}
            : v \in U64Samples }

RawAlphabet == {0, 5, 252, 253, 254, 255}

ScriptWire == {p \o d : p \in WirePrefixes, d \in SeqsUpTo(ScriptAlphabet, MaxScriptLen)}

WireOutPoint == OutPoint_new([i \in 1..TXID_LEN |-> 255 - i], <<65535, 1>>)

SequenceTails == { <<>>, <<1, 2, 3>>, <<1, 2, 3, 4>>, <<1, 2, 3, 4, 5>> }

\* byte sequences as a peer may send them: arbitrary short ones, and the wire
\* layout with any declared length or count, cut anywhere
Wire(k) ==
    CASE k = "CompactSize" ->
            SeqsUpTo(RawAlphabet, MaxRawLen)
                \cup PrefixesOf({p \o t : p \in WirePrefixes, t \in Trailing \cup {<<>>}})
      [] k = "OutPoint" ->
            PrefixesOf({[i \in 1..(TXID_LEN + 4 + MaxTrailing) |-> (7 * i) % 256]})
      [] k = "Script" ->
            SeqsUpTo(RawAlphabet, MaxRawLen) \cup PrefixesOf(ScriptWire)
      [] k = "TransactionInput" ->
            {OutPoint_to_bytes(WireOutPoint) \o s \o t :
                s \in ScriptWire, t \in SequenceTails}
      [] k = "BitcoinTransaction" ->
            { to_le_bytes(<<2, 0>>) \o p \o body \o t :
                p \in WirePrefixes,
                body \in {extend_inputs(ins) : ins \in SeqsUpTo(TxInputSamples, MaxInputs)}
                         \cup {OutPoint_to_bytes(WireOutPoint) \o WidePrefix(v, 9)
                                  : v \in {<<65535, 65535, 65535, 65535>>, <<0, 1, 0, 0>>}},
                t \in SequenceTails }

-----------------------------------------------------------------------------
(* The state machine: a value is constructed (or bytes arrive), to_bytes      *)
(* encodes, the bytes may be cut or followed by more, from_bytes decodes.     *)

Init ==
    /\ build \in Builds
    /\ kind \in Kinds
    /\ value \in Samples(kind) \cup {NoValue}
    /\ bytes = <<>>
    /\ origin = "none"
    /\ result = NoResult
    /\ reserved = NoReserve

CompactSizeToBytes ==
    /\ kind = "CompactSize"
    /\ value # NoValue
    /\ origin = "none"
    /\ bytes' = CompactSize_to_bytes(value)
    /\ origin' = "encoded"
    /\ UNCHANGED <<build, kind, value, result, reserved>>

OutPointToBytes ==
    /\ kind = "OutPoint"
    /\ value # NoValue
    /\ origin = "none"
    /\ bytes' = OutPoint_to_bytes(value)
    /\ origin' = "encoded"
    /\ UNCHANGED <<build, kind, value, result, reserved>>

ScriptToBytes ==
    /\ kind = "Script"
    /\ value # NoValue
    /\ origin = "none"
    /\ bytes' = Script_to_bytes(value)
    /\ origin' = "encoded"
    /\ UNCHANGED <<build, kind, value, result, reserved>>

TransactionInputToBytes ==
    /\ kind = "TransactionInput"
    /\ value # NoValue
    /\ origin = "none"
    /\ bytes' = TransactionInput_to_bytes(value)
    /\ origin' = "encoded"
    /\ UNCHANGED <<build, kind, value, result, reserved>>

BitcoinTransactionToBytes ==
    /\ kind = "BitcoinTransaction"
    /\ value # NoValue
    /\ origin = "none"
    /\ bytes' = BitcoinTransaction_to_bytes(value)
    /\ origin' = "encoded"
    /\ UNCHANGED <<build, kind, value, result, reserved>>

\* the caller hands over only the first n bytes of an encoding
Truncate ==
    /\ origin = "encoded"
    /\ result = NoResult
    /\ \E n \in 0..(Len(bytes) - 1) : bytes' = SubSeq(bytes, 1, n)
    /\ origin' = "truncated"
    /\ UNCHANGED <<build, kind, value, result, reserved>>

\* the encoding is followed by other bytes in the caller's buffer
Extend ==
    /\ origin = "encoded"
    /\ result = NoResult
    /\ \E s \in Trailing : bytes' = bytes \o s
    /\ origin' = "extended"
    /\ UNCHANGED <<build, kind, value, result, reserved>>

\* bytes arrive from outside
Receive ==
    /\ value = NoValue
    /\ origin = "none"
    /\ \E b \in Wire(kind) : bytes' = b
    /\ origin' = "wire"
    /\ UNCHANGED <<build, kind, value, result, reserved>>

CompactSizeFromBytes ==
    /\ kind = "CompactSize"
    /\ origin # "none"
    /\ result = NoResult
    /\ result' = CompactSize_from_bytes(bytes)
    /\ UNCHANGED <<build, kind, value, bytes, origin, reserved>>

OutPointFromBytes ==
    /\ kind = "OutPoint"
    /\ origin # "none"
    /\ result = NoResult
    /\ result' = OutPoint_from_bytes(bytes)
    /\ UNCHANGED <<build, kind, value, bytes, origin, reserved>>

ScriptFromBytes ==
    /\ kind = "Script"
    /\ origin # "none"
    /\ result = NoResult
    /\ result' = Script_from_bytes(bytes)
    /\ UNCHANGED <<build, kind, value, bytes, origin, reserved>>

TransactionInputFromBytes ==
    /\ kind = "TransactionInput"
    /\ origin # "none"
    /\ result = NoResult
    /\ result' = TransactionInput_from_bytes(bytes)
    /\ UNCHANGED <<build, kind, value, bytes, origin, reserved>>

BitcoinTransactionFromBytes ==
    /\ kind = "BitcoinTransaction"
    /\ origin # "none"
    /\ result = NoResult
    /\ result' = BitcoinTransaction_from_bytes(bytes)
    /\ reserved' = with_capacity_arg(bytes)
    /\ UNCHANGED <<build, kind, value, bytes, origin>>

Next ==
    \/ CompactSizeToBytes
    \/ OutPointToBytes
    \/ ScriptToBytes
    \/ TransactionInputToBytes
    \/ BitcoinTransactionToBytes
    \/ Truncate
    \/ Extend
    \/ Receive
    \/ CompactSizeFromBytes
    \/ OutPointFromBytes
    \/ ScriptFromBytes
    \/ TransactionInputFromBytes
    \/ BitcoinTransactionFromBytes

Spec == Init /\ [][Next]_vars

TypeOK ==
    /\ build \in Builds
    /\ kind \in Kinds
    /\ origin \in {"none", "encoded", "truncated", "extended", "wire"}
    /\ \A i \in 1..Len(bytes) : bytes[i] \in Byte
    /\ result.tag \in {"None", "Ok", "Err", "Panic"}
    /\ result.tag = "Err" => result.err \in {InsufficientBytes, InvalidFormat}

-----------------------------------------------------------------------------
(* Properties *)

Decoded == result # NoResult

\* C1: decoding the bytes to_bytes produced for a value V returns exactly
\* (V, number of bytes produced), for each of the five structures; a
\* transaction's inputs come back as the same records in the same order.
C1_RoundTrip ==
    (origin = "encoded" /\ Decoded) => result = Ok(value, Len(bytes))

C1_Witness ==
    /\ kind = "BitcoinTransaction"
    /\ origin = "encoded"
    /\ Decoded
    /\ Len(value.inputs) = 2
    /\ value.inputs[1] # value.inputs[2]
    /\ value.inputs[1].previous_output.vout = <<513, 1027>>
    /\ result.tag = "Ok"
    /\ result.value.inputs = value.inputs

\* C2: every from_bytes call, on any input, returns a value or an error: it
\* never panics (no overflowing offset computation, no slice or index past the
\* end of the input).
C2_NeverPanics ==
    Decoded => result.tag \in {"Ok", "Err"}

\* the width of the input-count prefix of a transaction's bytes
CountWidth(bs) == CompactSize_from_bytes(SliceFrom(bs, 4)).consumed

\* C3: no memory is sized by an untrusted length before the bytes are known
\* to exist: a Script payload is copied only from bytes the input holds, and
\* the capacity reserved for a transaction's inputs is never a declared count
\* that the rest of the buffer cannot supply (41 bytes at least per input).
C3_NoUncheckedAllocation ==
    /\ (kind = "Script" /\ result.tag = "Ok")
          => Len(result.value.bytes) + 1 <= Len(bytes)
    /\ reserved # NoReserve
          => /\ Fits(reserved)
             /\ 4 + CountWidth(bytes) + (TXID_LEN + 4 + 1 + 4) * ToNat(reserved)
                    <= Len(bytes)

\* the number of bytes that follow a CompactSize prefix byte
TrailingWidth(b) == IF b <= 252 THEN 0 ELSE IF b = 253 THEN 2
                    ELSE IF b = 254 THEN 4 ELSE 8

\* C4: CompactSize::from_bytes fails with InsufficientBytes exactly when the
\* input is empty or shorter than 1 + k (k = 0, 2, 4, 8 by the first byte);
\* otherwise it returns consumed = 1 + k and the first byte itself (k = 0) or
\* the little-endian integer of the k bytes after it.  A non-canonical
\* encoding is accepted: FD 05 00 decodes to value 5, consumed 3.
C4_CompactSizeDecode ==
    (kind = "CompactSize" /\ Decoded) =>
        /\ IF bytes = <<>> \/ Len(bytes) < 1 + TrailingWidth(bytes[1])
           THEN result = Err(InsufficientBytes)
           ELSE LET k == TrailingWidth(bytes[1]) IN
                /\ result.tag = "Ok"
                /\ result.consumed = 1 + k
                /\ k = 0 => result.value.value = <<bytes[1], 0, 0, 0>>
                /\ k > 0 => to_le_bytes(result.value.value)
                               = Slice(bytes, 1, 1 + k) \o Zeros(8 - k)
        /\ bytes = <<253, 5, 0>> => result = Ok([value |-> <<5, 0, 0, 0>>], 3)

C4_Witness ==
    /\ kind = "CompactSize"
    /\ bytes = <<253, 5, 0>>
    /\ result.tag = "Ok"
    /\ result.consumed = 3

\* the boundary table of the encoder: value, bytes
BoundaryTable ==
    { << <<0, 0, 0, 0>>, <<0>> >>,
      << <<252, 0, 0, 0>>, <<252>> >>,
      << <<253, 0, 0, 0>>, <<253, 253, 0>> >>,
      << <<65535, 0, 0, 0>>, <<253, 255, 255>> >>,
      << <<0, 1, 0, 0>>, <<254, 0, 0, 1, 0>> >>,
      << <<65535, 65535, 0, 0>>, <<254, 255, 255, 255, 255>> >>,
      << <<0, 0, 1, 0>>, <<255, 0, 0, 0, 0, 1, 0, 0, 0>> >> }

\* the least of the widths 1, 3, 5, 9 that can carry v
MinimalWidth(v) ==
    IF v[2] = 0 /\ v[3] = 0 /\ v[4] = 0 /\ v[1] <= 252 THEN 1
    ELSE IF v[2] = 0 /\ v[3] = 0 /\ v[4] = 0 THEN 3
    ELSE IF v[3] = 0 /\ v[4] = 0 THEN 5
    ELSE 9

\* C5: CompactSize::to_bytes emits the canonical minimal-width encoding of
\* every u64: the value itself in 1 byte up to 0xFC, else FD / FE / FF followed
\* by the value in 2 / 4 / 8 little-endian bytes, never wider than needed; the
\* boundary values encode as the boundary table lists.
C5_CanonicalEncoding ==
    (kind = "CompactSize" /\ origin = "encoded") =>
        LET v == value.value
            w == MinimalWidth(v) IN
        /\ Len(bytes) = w
        /\ w = 1 => bytes[1] = v[1]
        /\ w > 1 => /\ bytes[1] = 252 + (IF w = 3 THEN 1 ELSE IF w = 5 THEN 2 ELSE 3)
                    /\ \A i \in 1..(w - 1) :
                          bytes[1 + i] = (IF i % 2 = 1 THEN v[(i + 1) \div 2] % 256
                                          ELSE v[i \div 2] \div 256)
        /\ \A row \in BoundaryTable : v = row[1] => bytes = row[2]

C5_Witness ==
    /\ kind = "CompactSize"
    /\ origin = "encoded"
    /\ value.value = <<0, 0, 1, 0>>
    /\ bytes = <<255, 0, 0, 0, 0, 1, 0, 0, 0>>

\* C6: Script::from_bytes returns the prefix decoder's error if the prefix
\* fails; InsufficientBytes if the input has fewer than w + L bytes, for the
\* decoded prefix (L, w), whatever L; else the payload bytes[w .. w+L] with
\* consumed = w + L.
C6_ScriptDecode ==
    (kind = "Script" /\ Decoded) =>
        LET p == CompactSize_from_bytes(bytes) IN
        IF p.tag # "Ok" THEN result = Err(InsufficientBytes)
        ELSE LET L == p.value.value
                 w == p.consumed IN
             IF ~Fits(L) \/ Len(bytes) < w + ToNat(L)
             THEN result = Err(InsufficientBytes)
             ELSE result = Ok(Script_new(Slice(bytes, w, w + ToNat(L))), w + ToNat(L))

\* where the inputs of a transaction end when n inputs are read from offset off
RECURSIVE InputsEnd(_, _, _)
InputsEnd(bs, off, n) ==
    IF n = 0 THEN off
    ELSE InputsEnd(bs, off + TransactionInput_from_bytes(SliceFrom(bs, off)).consumed, n - 1)

\* C7: BitcoinTransaction::from_bytes needs 4 bytes of version, the input
\* count c, c input records read one after another and 4 bytes of lock-time; a
\* shortage at any stage (a declared count the buffer cannot supply too) gives
\* InsufficientBytes; on success there are exactly c inputs and consumed =
\* 4 + width of the count + the bytes consumed by the inputs + 4.
C7_TransactionDecode ==
    (kind = "BitcoinTransaction" /\ Decoded) =>
        /\ result.tag \in {"Ok", "Err"}
        /\ result.tag = "Err" => result = Err(InsufficientBytes)
        /\ Len(bytes) < 4 => result.tag = "Err"
        /\ (Len(bytes) >= 4 /\ CompactSize_from_bytes(SliceFrom(bytes, 4)).tag = "Err")
              => result.tag = "Err"
        /\ result.tag = "Ok" =>
              LET c == CompactSize_from_bytes(SliceFrom(bytes, 4)) IN
              /\ u64(Len(result.value.inputs)) = c.value.value
              /\ result.consumed
                    = InputsEnd(bytes, 4 + c.consumed, Len(result.value.inputs)) + 4
              /\ result.consumed <= Len(bytes)

\* the offset (0-based) of input i in the encoding of transaction tx
RECURSIVE InputOffset(_, _)
InputOffset(tx, i) ==
    IF i = 1 THEN 5
    ELSE InputOffset(tx, i - 1) + TXID_LEN + 4 + 1
            + Len(tx.inputs[i - 1].script_sig.bytes) + 4

\* C8: BitcoinTransaction::to_bytes is version (4 bytes LE), the VarInt of the
\* number of inputs, each input in list order (32-byte txid, index 4 bytes LE,
\* VarInt script length, script, sequence 4 bytes LE), lock-time (4 bytes LE).
\* Version 1 with no inputs and lock-time 0 is 01 00 00 00 00 00 00 00 00 and
\* decodes consuming 9 bytes; two inputs with empty scripts give count byte 2,
\* 41 bytes per input and consumed = 4 + 1 + 2*41 + 4.
C8_TransactionLayout ==
    (kind = "BitcoinTransaction" /\ origin = "encoded") =>
        LET n == Len(value.inputs)
            last == InputOffset(value, n + 1) IN
        /\ Len(bytes) = last + 4
        /\ from_le_bytes(Slice(bytes, 0, 4)) = value.version
        /\ bytes[5] = n
        /\ \A i \in 1..n :
              LET inp == value.inputs[i]
                  off == InputOffset(value, i)
                  len == Len(inp.script_sig.bytes) IN
              /\ Slice(bytes, off, off + TXID_LEN) = inp.previous_output.txid
              /\ from_le_bytes(Slice(bytes, off + TXID_LEN, off + TXID_LEN + 4))
                    = inp.previous_output.vout
              /\ bytes[off + TXID_LEN + 4 + 1] = len
              /\ Slice(bytes, off + TXID_LEN + 5, off + TXID_LEN + 5 + len)
                    = inp.script_sig.bytes
              /\ from_le_bytes(Slice(bytes, off + TXID_LEN + 5 + len,
                                            off + TXID_LEN + 5 + len + 4))
                    = inp.sequence
        /\ from_le_bytes(Slice(bytes, last, last + 4)) = value.lock_time
        /\ value = BitcoinTransaction_new(<<1, 0>>, <<>>, <<0, 0>>)
              => /\ bytes = <<1, 0, 0, 0, 0, 0, 0, 0, 0>>
                 /\ Decoded => result = Ok(value, 9)
        /\ (n = 2 /\ \A i \in 1..n : value.inputs[i].script_sig.bytes = <<>>)
              => /\ bytes[5] = 2
                 /\ InputOffset(value, 2) - InputOffset(value, 1) = 41
                 /\ Len(bytes) = 4 + 1 + 2 * 41 + 4
                 /\ Decoded => (result.tag = "Ok" /\ result.consumed = 4 + 1 + 2 * 41 + 4)

C8_Witness ==
    /\ kind = "BitcoinTransaction"
    /\ origin = "encoded"
    /\ Len(value.inputs) = 2
    /\ \A i \in 1..2 : value.inputs[i].script_sig.bytes = <<>>
    /\ value.inputs[1] # value.inputs[2]
    /\ result.tag = "Ok"
    /\ result.consumed = 91

\* C9: from_bytes of a strict prefix of to_bytes(V) (the empty one included,
\* and any OutPoint input under 36 bytes) returns InsufficientBytes: never
\* another value, never InvalidFormat, and the inner decoder's error reaches
\* the caller unchanged.
C9_TruncationFails ==
    (origin = "truncated" /\ Decoded) => result = Err(InsufficientBytes)

C9_Witness ==
    /\ kind = "BitcoinTransaction"
    /\ origin = "truncated"
    /\ Len(value.inputs) = 2
    /\ Len(bytes) = 4 + 1 + 41 + TXID_LEN + 3
    /\ result = Err(InsufficientBytes)

\* C10: a successful from_bytes consumes no more than the input holds, and
\* what follows the consumed bytes does not matter: the first n bytes followed
\* by any other suffix decode to the same (V, n); so to_bytes(V) followed by
\* any suffix decodes to (V, length of to_bytes(V)).
C10_TrailingIgnored ==
    /\ result.tag = "Ok" =>
          /\ result.consumed <= Len(bytes)
          /\ \A s \in Trailing \cup {<<>>} :
                from_bytes(kind, Slice(bytes, 0, result.consumed) \o s) = result
    /\ (origin = "extended" /\ Decoded)
          => result = Ok(value, Len(to_bytes(kind, value)))

C10_Witness ==
    /\ kind = "TransactionInput"
    /\ origin = "extended"
    /\ value.script_sig.bytes # <<>>
    /\ result.tag = "Ok"
    /\ result.consumed < Len(bytes)
    /\ result.value = value

=============================================================================
